---- MODULE Spec2Model ----
(***************************************************************************)
(* Model of static_dhcp_to_dns.py: the reconciliation of the static DHCP   *)
(* leases of an OPNSense configuration with the records of a Dynamic DNS   *)
(* server, through a sqlite cache of the leases applied last.              *)
(*                                                                         *)
(* Strings that the script splits or joins on '.' are sequences of labels: *)
(* '10.0.0.1' is <<"10","0","0","1">>, 'host1' is <<"host1">>, and         *)
(* '%s.%s' % (a, b) is a \o b.  Python's None is the empty sequence; no    *)
(* element of the configuration holds an empty text.                       *)
(***************************************************************************)
EXTENDS Integers, Sequences, FiniteSets, TLC

\* ---------------------------------------------------------------- bounds
MaxLeases == 2      \* static leases in one configuration document
MaxMtime  == 1      \* modifications of the configuration file in one run
MaxRecords == 2     \* records of the zone a transaction is replayed on

\* ------------------------------------------------------- program constants
dnsTtl == 3600

None == <<>>

\* class LeaseState(IntEnum)
S_UNCHANGED == 1
S_NEW       == 2
S_UPDATED   == 3
S_DELETED   == 4
LeaseState == {S_UNCHANGED, S_NEW, S_UPDATED, S_DELETED}

\* ------------------------------------------------- values of the documents
Domains   == { <<"lan">> }
Hostnames == { <<"host1">>, <<"hostname">> }
Ips       == { <<"10", "0", "0", "1">>, <<"10", "0", "0", "2">> }

\* ------------------------------------------------------------ class Lease
\* Lease.__init__(self, type, domain, hostname, ip): the type argument is
\* not stored, state keeps the class default.
Lease(type, domain, hostname, ip) ==
    [domain |-> domain, hostname |-> hostname, ip |-> ip, state |-> S_UNCHANGED]

\* -------------------------------------------------------------- sequences
Range(s) == { s[i] : i \in DOMAIN s }

Reverse(s) == [ i \in 1..Len(s) |-> s[Len(s) + 1 - i] ]

SeqsUpTo(S, n) == UNION { [1..k -> S] : k \in 0..n }

Perms(S) == { s \in [1..Cardinality(S) -> S] : Range(s) = S }

RECURSIVE Flatten(_)
Flatten(ss) == IF ss = <<>> THEN <<>> ELSE Head(ss) \o Flatten(Tail(ss))

\* ------------------------------------------------ the configuration file
\* The part of /conf/config.xml the script reads: one dhcpd section, with its
\* <domain> and its <staticmap> elements in document order.  A staticmap
\* has an <ipaddr>; its <hostname> is optional, None when it has none.
StaticMaps == [hostname : Hostnames \cup {None}, ipaddr : Ips]

Config(domain, staticmap) == [domain |-> domain, staticmap |-> staticmap]

ConfigDocs ==
    { Config(d, ms) : d \in Domains, ms \in SeqsUpTo(StaticMaps, MaxLeases) }

RemoveAt(s, i) == SubSeq(s, 1, i - 1) \o SubSeq(s, i + 1, Len(s))

\* What one save of the DHCP page does to the section: a static mapping is
\* added, removed or edited.
Edits(c) ==
    LET ms == c.staticmap
    IN { Config(c.domain, Append(ms, m)) : m \in StaticMaps }
       \cup { Config(c.domain, RemoveAt(ms, i)) : i \in DOMAIN ms }
       \cup { d \in { Config(c.domain, [ms EXCEPT ![i] = m]) :
                            i \in DOMAIN ms, m \in StaticMaps } : d # c }

\* One line of the xmllint output: '<tag>text</tag>'.
Line(tag, text) == [tag |-> tag, text |-> text]

\* Line 101: the lines xmllint prints for the section: its <domain>, then
\* the <ipaddr> and the <hostname>, when it has one, of each staticmap.  A
\* section without staticmap is not selected by the XPath expression.
Xmllint(c) ==
    IF c.staticmap = <<>> THEN <<>>
    ELSE << Line("domain", c.domain) >>
         \o Flatten([ i \in DOMAIN c.staticmap |->
                        << Line("ipaddr", c.staticmap[i].ipaddr) >>
                        \o IF c.staticmap[i].hostname = None THEN <<>>
                           ELSE << Line("hostname", c.staticmap[i].hostname) >> ])

\* ------------------------------------------------------ get_static_leases
Complete(sl) == sl.domain # None /\ sl.ip # None /\ sl.hostname # None

\* The body of the for loop for one line: the lease under construction after
\* the line, or the exception the line raises.
ReadLine(sl, line) ==
    IF line.tag = "domain"
      THEN [exc |-> "", sl |-> Lease("STATIC", line.text, None, None)]
    ELSE IF line.tag = "ipaddr"
      THEN IF sl.ip = None
             THEN [exc |-> "", sl |-> [sl EXCEPT !.ip = line.text]]
             ELSE [exc |-> "Static lease IPADDR mismatch", sl |-> sl]
    ELSE IF line.tag = "hostname"
      THEN IF sl.hostname = None
             THEN [exc |-> "", sl |-> [sl EXCEPT !.hostname = line.text]]
             ELSE [exc |-> "Static lease HOSTNAME mismatch", sl |-> sl]
    ELSE [exc |-> "", sl |-> sl]

RECURSIVE ReadLines(_, _, _)
ReadLines(lines, sl, slList) ==
    IF lines = <<>>
      THEN [exc |-> "",
            slList |-> IF Complete(sl) THEN Append(slList, sl) ELSE slList]
      ELSE LET r == ReadLine(sl, Head(lines))
           IN IF r.exc # "" THEN [exc |-> r.exc, slList |-> <<>>]
              ELSE IF Complete(r.sl)
                THEN ReadLines(Tail(lines),
                               Lease("STATIC", r.sl.domain, None, None),
                               Append(slList, r.sl))
                ELSE ReadLines(Tail(lines), r.sl, slList)

get_static_leases(c) ==
    ReadLines(Xmllint(c), Lease("STATIC", None, None, None), <<>>)

\* --------------------------------------------------------- the cache DB
\* Table leases (domain, hostname, ip, PRIMARY KEY (domain, hostname)): a set
\* of rows, at most one for a key.
Row(domain, hostname, ip) == [domain |-> domain, hostname |-> hostname, ip |-> ip]

\* SELECT * FROM leases WHERE domain = ? AND hostname = ?  (fetchone)
SelectByKey(db, domain, hostname) ==
    { r \in db : r.domain = domain /\ r.hostname = hostname }

\* What sqlite makes of "%s" formatted into the statement text: a
\* double-quoted token that names a column of leases is that column of the
\* row under test, any other one is a string literal.
SqlQuoted(text, row) ==
    IF text = <<"domain">> THEN row.domain
    ELSE IF text = <<"hostname">> THEN row.hostname
    ELSE IF text = <<"ip">> THEN row.ip
    ELSE text

\* SELECT * FROM leases WHERE NOT (domain, hostname) IN (VALUES ("d","h"),...)
SelectNotIn(db, leases) ==
    { r \in db : ~ \E i \in DOMAIN leases :
                      /\ r.domain   = SqlQuoted(leases[i].domain, r)
                      /\ r.hostname = SqlQuoted(leases[i].hostname, r) }

\* INSERT OR REPLACE INTO leases VALUES (?, ?, ?)
InsertOrReplace(db, v) ==
    (db \ SelectByKey(db, v[1], v[2])) \cup { Row(v[1], v[2], v[3]) }

\* DELETE FROM leases WHERE domain = ? AND hostname = ?
DeleteByKey(db, k) == db \ SelectByKey(db, k[1], k[2])

\* cur.executemany(DELETE ..., params) and cur.executemany(INSERT ..., params)
RECURSIVE DeleteMany(_, _)
DeleteMany(db, params) ==
    IF params = <<>> THEN db
    ELSE DeleteMany(DeleteByKey(db, Head(params)), Tail(params))

RECURSIVE InsertMany(_, _)
InsertMany(db, params) ==
    IF params = <<>> THEN db
    ELSE InsertMany(InsertOrReplace(db, Head(params)), Tail(params))

\* ------------------------------------------------------------- db_compare
\* Mutant: a lease whose key is in the cache is left Unchanged whatever the
\* address of the row.
CompareLease_KeyOnly(db, lease) ==
    IF SelectByKey(db, lease.domain, lease.hostname) # {}
      THEN lease
      ELSE [lease EXCEPT !.state = S_NEW]

\* Lines 189-198: the state of one lease of the configuration.
CompareLease(db, lease) ==
    LET record == SelectByKey(db, lease.domain, lease.hostname)
    IN IF record # {}
         THEN IF (CHOOSE r \in record : TRUE).ip # lease.ip
                THEN [lease EXCEPT !.state = S_UPDATED]
                ELSE lease
         ELSE [lease EXCEPT !.state = S_NEW]

\* Lines 203-207: the lease appended for a record of the cache that the
\* configuration does not hold.
DeletedLease(record) ==
    [Lease(record.domain, record.hostname, record.ip, None)
        EXCEPT !.state = S_DELETED]

\* Line 211: list.sort is stable.
SortByState(leases) ==
    SelectSeq(leases, LAMBDA x : x.state = S_UNCHANGED)
    \o SelectSeq(leases, LAMBDA x : x.state = S_NEW)
    \o SelectSeq(leases, LAMBDA x : x.state = S_UPDATED)
    \o SelectSeq(leases, LAMBDA x : x.state = S_DELETED)

\* The list db_compare leaves in leases, records being the rows of the
\* second query in the order the cursor returned them.
db_compare(leases, db, records) ==
    SortByState([ i \in 1..Len(leases) |-> CompareLease(db, leases[i]) ]
                \o [ i \in 1..Len(records) |-> DeletedLease(records[i]) ])

\* ------------------------------------------------------------- dns_update
FqdnOf(lease) == lease.hostname \o lease.domain

PtrNameOf(ip) == Reverse(ip) \o <<"in-addr", "arpa">>

UpdateDelete(name) == [op |-> "delete", name |-> name]
UpdateAdd(name, ttl, type, rdata) ==
    [op |-> "add", name |-> name, ttl |-> ttl, type |-> type, rdata |-> rdata]
Send == [op |-> "send"]

\* Lines 146-149: the forward group of a lease.
ForwardGroup(lease) ==
    << UpdateDelete(FqdnOf(lease)) >>
    \o (IF lease.state # S_DELETED
          THEN << UpdateAdd(FqdnOf(lease), dnsTtl, "A", lease.ip) >>
          ELSE <<>>)
    \o << Send >>

\* Mutant: the reverse group adds the PTR without deleting at its name.
ReverseGroup_AddOnly(lease) ==
    LET ptrName == PtrNameOf(lease.ip)
    IN (IF lease.state # S_DELETED
          THEN << UpdateAdd(ptrName, dnsTtl, "PTR", FqdnOf(lease)) >>
          ELSE <<>>)
       \o << Send >>

\* Lines 151-155: the reverse group of a lease.
ReverseGroup(lease) ==
    LET ptrName == PtrNameOf(lease.ip)
    IN << UpdateDelete(ptrName) >>
       \o (IF lease.state # S_DELETED
             THEN << UpdateAdd(ptrName, dnsTtl, "PTR", FqdnOf(lease)) >>
             ELSE <<>>)
       \o << Send >>

\* Lines 143-155: the command file, or what was written of it when
\* lease.ip.split raises on a lease without address.
RECURSIVE WriteFile(_, _)
WriteFile(leases, f) ==
    IF leases = <<>> THEN [exc |-> "", f |-> f]
    ELSE LET lease == Head(leases)
         IN IF lease.ip = None
              THEN [exc |-> "AttributeError: split", f |-> f \o ForwardGroup(lease)]
              ELSE WriteFile(Tail(leases),
                             f \o ForwardGroup(lease) \o ReverseGroup(lease))

\* ---------------------------------------------------- nsupdate and the zone
\* The zone is the set of the resource records the server holds.
RR(name, ttl, type, rdata) ==
    [name |-> name, ttl |-> ttl, type |-> type, rdata |-> rdata]

\* Mutant: 'update delete' removes one record of the name only.
ApplyUpdate_DeletesOne(zone, u) ==
    IF u.op = "delete"
      THEN LET at == { rr \in zone : rr.name = u.name }
           IN IF at = {} THEN zone ELSE zone \ { CHOOSE rr \in at : TRUE }
      ELSE zone \cup { RR(u.name, u.ttl, u.type, u.rdata) }

\* 'update delete name' removes every record of the name, 'update add' adds
\* one record.
ApplyUpdate(zone, u) ==
    IF u.op = "delete" THEN { rr \in zone : rr.name # u.name }
    ELSE zone \cup { RR(u.name, u.ttl, u.type, u.rdata) }

RECURSIVE ApplyUpdates(_, _)
ApplyUpdates(zone, us) ==
    IF us = <<>> THEN zone ELSE ApplyUpdates(ApplyUpdate(zone, Head(us)), Tail(us))

\* A run of nsupdate: the zone it leaves and its exit status.
Run(zone, returncode) == [zone |-> zone, returncode |-> returncode]

\* nsupdate reads the file: the updates between two 'send' are one message,
\* which the server applies as a whole or rejects.  After a rejected message
\* nsupdate goes on with the next one and exits with status 2 at the end.
\* The runs that are possible from the runs so far.
RECURSIVE Nsupdate(_, _, _)
Nsupdate(f, pending, runs) ==
    IF f = <<>> THEN runs
    ELSE IF Head(f).op = "send"
      THEN Nsupdate(Tail(f), <<>>,
                    { Run(ApplyUpdates(r.zone, pending), r.returncode) : r \in runs }
                    \cup { Run(r.zone, 2) : r \in runs })
      ELSE Nsupdate(Tail(f), Append(pending, Head(f)), runs)

\* ---------------------------------------------------------------- db_update
\* Lines 223-229: the rows of the cache after the two executemany.
db_update(leases, db) ==
    LET Deleted(x)  == x.state = S_DELETED
        Modified(x) == x.state = S_UPDATED \/ x.state = S_NEW
        del == SelectSeq(leases, Deleted)
        mod == SelectSeq(leases, Modified)
        sqlDeletedLeases  == [ i \in 1..Len(del) |-> <<del[i].domain, del[i].hostname>> ]
        sqlModifiedLeases == [ i \in 1..Len(mod) |->
                                 <<mod[i].domain, mod[i].hostname, mod[i].ip>> ]
    IN InsertMany(DeleteMany(db, sqlDeletedLeases), sqlModifiedLeases)

\* ------------------------------------------------------------ the main loop
\* Lines 242-247.
Processable(leases, force) ==
    IF force THEN leases
    ELSE SelectSeq(leases, LAMBDA x : x.state # S_UNCHANGED)

\* Mutant: dns_update is called with the changed leases only.
DnsUpdateArg_Changed(leases, processable) ==
    SelectSeq(leases, LAMBDA x : x.state # S_UNCHANGED)

\* Line 250: the list dns_update is called with.
DnsUpdateArg(leases, processable) == leases

\* Line 251: the list db_update is called with.
DbUpdateArg(leases, processable) == leases

\* Mutant: the exit status is not checked (subprocess.call).
CheckCall_Unchecked(returncode) == TRUE

\* Lines 161-164: check_call returns on exit status 0 and raises otherwise.
CheckCall(returncode) == returncode = 0

VARIABLES
    config,             \* the dhcpd section of /conf/config.xml
    mtime,              \* st_mtime of /conf/config.xml
    cache,              \* the rows of table leases in static_leases.db
    zone,               \* the records of the DNS server
    loop,               \* args.loop
    dnsForceUpdate,     \* args.force
    pc,                 \* the statement the script is at
    current,            \* the list get_static_leases returned in this cycle
    leases,             \* the variable leases of the main loop
    processableLeases,  \* the variable processableLeases of the main loop
    tmpFile,            \* the content of /tmp/lease_update, None when absent
    returncode,         \* exit status of the last nsupdate
    exc,                \* the exception that ended the process, "" if none
    stdout,             \* the last line the cycle printed about its result
    prevModTime         \* the variable prevModTime of the main loop

vars == << config, mtime, cache, zone, loop, dnsForceUpdate, pc, current,
           leases, processableLeases, tmpFile, returncode, exc, stdout,
           prevModTime >>

env    == << config, mtime >>
args   == << loop, dnsForceUpdate >>

Init ==
    /\ config \in ConfigDocs
    /\ mtime = 0
    /\ cache = {}
    /\ zone = {}
    /\ loop \in BOOLEAN
    /\ dnsForceUpdate \in BOOLEAN
    /\ pc = "get_static_leases"
    /\ current = <<>>
    /\ leases = <<>>
    /\ processableLeases = <<>>
    /\ tmpFile = None
    /\ returncode = 0
    /\ exc = ""
    /\ stdout = ""
    /\ prevModTime = 0

\* The variables of a process are gone when it ends.
ProcessEnds ==
    /\ current' = <<>>
    /\ leases' = <<>>
    /\ processableLeases' = <<>>
    /\ returncode' = 0
    /\ prevModTime' = 0

ProcessGoesOn ==
    UNCHANGED << current, leases, processableLeases, returncode, prevModTime >>

\* An uncaught exception ends the process with a traceback.
Raise(e) == pc' = "traceback" /\ exc' = e /\ ProcessEnds

\* Somebody saves the DHCP page of OPNSense.  The statements from line 239
\* to line 253 read neither the file nor its st_mtime: a save during them
\* is the same save taken just before line 261 samples st_mtime, or before
\* the next start when the cycle ends with a traceback.
ConfigChange ==
    /\ mtime < MaxMtime
    /\ pc \in {"get_static_leases", "end_cycle", "wait", "exit", "traceback"}
    /\ config' \in { c \in Edits(config) : Len(c.staticmap) <= MaxLeases }
    /\ mtime' = mtime + 1
    /\ UNCHANGED << cache, zone, args, pc, current, leases, processableLeases,
                    tmpFile, returncode, exc, stdout, prevModTime >>

\* Line 238.
GetStaticLeases ==
    /\ pc = "get_static_leases"
    /\ LET r == get_static_leases(config)
       IN IF r.exc # ""
            THEN Raise(r.exc)
            ELSE /\ current' = r.slList
                 /\ leases' = r.slList
                 /\ pc' = "db_compare"
                 /\ UNCHANGED << processableLeases, returncode, prevModTime, exc >>
    /\ UNCHANGED << env, cache, zone, args, tmpFile, stdout >>

\* Line 239, the cache database being opened (lines 185-186).
DbCompare ==
    /\ pc = "db_compare"
    /\ IF leases = <<>>
         THEN \* 'VALUES ' without a row is not SQL
              Raise("sqlite3.OperationalError") /\ stdout' = stdout
         ELSE /\ \E records \in Perms(SelectNotIn(cache, leases)) :
                     leases' = db_compare(leases, cache, records)
              /\ stdout' = ""
              /\ pc' = "select"
              /\ UNCHANGED << current, processableLeases, returncode,
                              prevModTime, exc >>
    /\ UNCHANGED << env, cache, zone, args, tmpFile >>

\* Lines 168-179 return None when sqlite cannot open or initialise the file,
\* and con.cursor() raises (lines 186 and 227).
NoConnection ==
    /\ pc \in {"db_compare", "db_update"}
    /\ Raise("AttributeError: cursor")
    /\ UNCHANGED << env, cache, zone, args, tmpFile, stdout >>

\* Lines 242-253.
Select ==
    /\ pc = "select"
    /\ processableLeases' = Processable(leases, dnsForceUpdate)
    /\ IF Len(processableLeases') > 0
         THEN pc' = "dns_update" /\ stdout' = stdout
         ELSE pc' = "end_cycle" /\ stdout' = "Records already up-to-date."
    /\ UNCHANGED << env, cache, zone, args, current, leases, tmpFile,
                    returncode, exc, prevModTime >>

\* Lines 139-155 of the call of line 250.
DnsUpdateWrite ==
    /\ pc = "dns_update"
    /\ LET w == WriteFile(DnsUpdateArg(leases, processableLeases), <<>>)
       IN /\ tmpFile' = w.f
          /\ IF w.exc # "" THEN Raise(w.exc)
             ELSE pc' = "nsupdate" /\ exc' = exc /\ ProcessGoesOn
    /\ UNCHANGED << env, cache, zone, args, stdout >>

\* Lines 159-164: nsupdate sends the messages of the file; it exits with 0
\* when the server applied every one of them.
DnsUpdateExec ==
    /\ pc = "nsupdate"
    /\ \E r \in Nsupdate(tmpFile, <<>>, { Run(zone, 0) }) :
          /\ zone' = r.zone
          /\ IF CheckCall(r.returncode)
               THEN /\ returncode' = r.returncode
                    /\ stdout' = "DNS records updated."
                    /\ tmpFile' = None
                    /\ pc' = "db_update"
                    /\ UNCHANGED << current, leases, processableLeases,
                                    prevModTime, exc >>
               ELSE /\ Raise("CalledProcessError")
                    /\ UNCHANGED << stdout, tmpFile >>
    /\ UNCHANGED << env, cache, args >>

\* Lines 220-232 of the call of line 251.
DbUpdate ==
    /\ pc = "db_update"
    /\ cache' = db_update(DbUpdateArg(leases, processableLeases), cache)
    /\ stdout' = "Cache DB records updated."
    /\ pc' = "end_cycle"
    /\ UNCHANGED << env, zone, args, current, leases, processableLeases,
                    tmpFile, returncode, exc, prevModTime >>

\* Lines 254-261.  The lists of the cycle that ends are not read again
\* (lines 238 and 242 assign them anew), they are dropped here.
EndCycle ==
    /\ pc = "end_cycle"
    /\ stdout' = ""
    /\ IF loop # TRUE
         THEN pc' = "exit" /\ ProcessEnds
         ELSE /\ pc' = "wait"
              /\ prevModTime' = mtime
              /\ current' = <<>>
              /\ leases' = <<>>
              /\ processableLeases' = <<>>
              /\ returncode' = 0
    /\ UNCHANGED << env, cache, zone, args, tmpFile, exc >>

\* Lines 263-270: one turn of the inner loop.
Poll ==
    /\ pc = "wait"
    /\ LET modTime == mtime
       IN IF modTime # prevModTime \/ dnsForceUpdate
            THEN pc' = "get_static_leases"
            ELSE pc' = "wait"
    /\ UNCHANGED << env, cache, zone, args, current, leases, processableLeases,
                    tmpFile, returncode, exc, stdout, prevModTime >>

\* The script is started again with the same command line (by hand, or by
\* the syshook of lines 38-43) after it has ended.  /tmp/lease_update is
\* truncated by line 143 before anything reads it, so what a failed run left
\* in it is dropped here.
Start ==
    /\ pc \in {"exit", "traceback"}
    /\ pc' = "get_static_leases"
    /\ tmpFile' = None
    /\ exc' = ""
    /\ stdout' = ""
    /\ UNCHANGED << env, cache, zone, args, current, leases, processableLeases,
                    returncode, prevModTime >>

Next ==
    \/ ConfigChange
    \/ GetStaticLeases
    \/ DbCompare
    \/ NoConnection
    \/ Select
    \/ DnsUpdateWrite
    \/ DnsUpdateExec
    \/ DbUpdate
    \/ EndCycle
    \/ Poll
    \/ Start

Spec == Init /\ [][Next]_vars

\* The interpreter executes the next statement of the script, nsupdate
\* ends, and time.sleep returns: every step of the script that can be taken
\* is taken.  Nothing makes anybody save the configuration, a failure
\* happen or the script be started again.
Fairness ==
    /\ WF_vars(GetStaticLeases)
    /\ WF_vars(DbCompare)
    /\ WF_vars(Select)
    /\ WF_vars(DnsUpdateWrite)
    /\ WF_vars(DnsUpdateExec)
    /\ WF_vars(DbUpdate)
    /\ WF_vars(EndCycle)
    /\ WF_vars(Poll)

\* The script is run with --loop and without --force.
InitLive == Init /\ loop /\ ~dnsForceUpdate

SpecLive == InitLive /\ [][Next]_vars /\ Fairness

\* The runs in which the server applies every message and the cache
\* database opens.
DnsUpdateApplied == DnsUpdateExec /\ pc' = "db_update"

NextReliable ==
    \/ ConfigChange
    \/ GetStaticLeases
    \/ DbCompare
    \/ Select
    \/ DnsUpdateWrite
    \/ DnsUpdateApplied
    \/ DbUpdate
    \/ EndCycle
    \/ Poll
    \/ Start

SpecReliable == Init /\ [][NextReliable]_vars

\* ------------------------------------------- replaying a transaction twice
\* The leases dns_update can be called with: every state with every
\* binding, and the leases db_compare appends for the rows of the cache.
ClassifiedLeases ==
    [domain : Domains, hostname : Hostnames, ip : Ips, state : LeaseState]
    \cup { DeletedLease(Row(d, h, a)) : d \in Domains, h \in Hostnames, a \in Ips }

\* The records a zone can hold for the hosts and addresses of the model.
ZoneRecords ==
    { RR(h \o d, dnsTtl, "A", a) : d \in Domains, h \in Hostnames, a \in Ips }
    \cup { RR(PtrNameOf(a), dnsTtl, "PTR", h \o d) :
              d \in Domains, h \in Hostnames, a \in Ips }

\* The zone after an nsupdate of the file that exits with 0 (line 161
\* returns).
Applied(f, z) ==
    (CHOOSE r \in Nsupdate(f, <<>>, { Run(z, 0) }) : r.returncode = 0).zone

InitIdem ==
    /\ config = Config(CHOOSE d \in Domains : TRUE, <<>>)
    /\ mtime = 0
    /\ cache = {}
    /\ zone \in { z \in SUBSET ZoneRecords : Cardinality(z) <= MaxRecords }
    /\ loop = FALSE
    /\ dnsForceUpdate = FALSE
    /\ pc = "dns_update"
    /\ current = <<>>
    /\ leases \in SeqsUpTo(ClassifiedLeases, MaxLeases)
    /\ processableLeases = leases
    /\ tmpFile = None
    /\ returncode = 0
    /\ exc = ""
    /\ stdout = ""
    /\ prevModTime = 0

\* Lines 159-161 on the file, the server applying every message.
NsupdateOnce ==
    /\ pc = "nsupdate"
    /\ zone' = Applied(tmpFile, zone)
    /\ pc' = "nsupdate_again"
    /\ UNCHANGED << env, cache, args, current, leases, processableLeases,
                    tmpFile, returncode, exc, stdout, prevModTime >>

\* The same once more, on the same file.
NsupdateAgain ==
    /\ pc = "nsupdate_again"
    /\ zone' = Applied(tmpFile, zone)
    /\ pc' = "applied_twice"
    /\ UNCHANGED << env, cache, args, current, leases, processableLeases,
                    tmpFile, returncode, exc, stdout, prevModTime >>

NextIdem == DnsUpdateWrite \/ NsupdateOnce \/ NsupdateAgain

SpecIdem == InitIdem /\ [][NextIdem]_vars

\* ================================================================== claims
KeyOf(x) == << x.domain, x.hostname >>

Keys(ls) == { KeyOf(ls[i]) : i \in DOMAIN ls }

CacheKeys == { KeyOf(r) : r \in cache }

DistinctKeys(ls) ==
    \A i, j \in DOMAIN ls : i # j => KeyOf(ls[i]) # KeyOf(ls[j])

DistinctAddresses(ls) ==
    \A i, j \in DOMAIN ls : i # j => ls[i].ip # ls[j].ip

WithState(ls, states) == SelectSeq(ls, LAMBDA x : x.state \in states)

\* The cycle has applied its transaction and committed the cache.
Persisted == pc = "end_cycle" /\ stdout = "Cache DB records updated."

\* The records of the bindings of C.
RecordsOf(C) ==
    UNION { { RR(FqdnOf(C[i]), dnsTtl, "A", C[i].ip),
              RR(PtrNameOf(C[i].ip), dnsTtl, "PTR", FqdnOf(C[i])) } :
            i \in DOMAIN C }

\* C1: after every cycle that completes Persisting, for a current set C with
\* pairwise distinct keys and addresses, the zone holds the A and the PTR
\* record of every binding of C and no other record.
C1_ZoneMirrorsCurrent ==
    (Persisted /\ DistinctKeys(current) /\ DistinctAddresses(current))
        => zone = RecordsOf(current)

\* C2: in the list db_compare produces for a current set C (distinct keys)
\* and the cache K, the keys in state New, Updated or Unchanged are keys(C),
\* the keys in state Deleted are keys(K) minus keys(C), and no key is twice
\* in the list.
C2_ReconcileKeys ==
    (pc = "select" /\ DistinctKeys(current))
        => /\ Keys(WithState(leases, {S_NEW, S_UPDATED, S_UNCHANGED})) = Keys(current)
           /\ Keys(WithState(leases, {S_DELETED})) = CacheKeys \ Keys(current)
           /\ DistinctKeys(leases)

\* C3: after every cycle that applied its transaction and committed the
\* cache, the cache is the map (domain, hostname) -> address of the current
\* set C (distinct keys) of the cycle.
C3_CacheMirrorsCurrent ==
    (Persisted /\ DistinctKeys(current))
        => cache = { Row(current[i].domain, current[i].hostname, current[i].ip) :
                     i \in DOMAIN current }

\* C4: db_update is entered only from an nsupdate that exited with status 0,
\* and no other step writes the cache: a cycle whose apply fails leaves the
\* cache as it was, whatever the server applied.
C4_PersistOnlyAfterApply ==
    [][ /\ (pc # "db_update" /\ pc' = "db_update")
            => (pc = "nsupdate" /\ returncode' = 0)
        /\ (cache' # cache) => (pc = "db_update" /\ pc' = "end_cycle")
        /\ (pc = "nsupdate" /\ pc' = "traceback") => cache' = cache ]_vars

\* C4 witness: an apply has failed after the server applied some message,
\* and the cache is still empty.
C4_Witness ==
    pc = "traceback" /\ exc = "CalledProcessError" /\ zone # {} /\ cache = {}

\* C5: when a cycle has reconciled C and persisted the result, reconciling
\* the same C against the cache it wrote gives Unchanged for every binding
\* and no Deleted binding.
C5_RoundTrip ==
    Persisted
        => \A records \in Perms(SelectNotIn(cache, current)) :
             \A x \in Range(db_compare(current, cache, records)) :
                x.state = S_UNCHANGED

TransactionOf(ls) == WriteFile(ls, <<>>).f

\* C7: without the force flag the transaction written in a cycle (current
\* set with distinct keys) is the one of the bindings that are not Unchanged:
\* it holds no group of an Unchanged binding.
C7_UnchangedSkipped ==
    (pc = "nsupdate" /\ ~dnsForceUpdate /\ DistinctKeys(current))
        => tmpFile = TransactionOf(WithState(leases, {S_NEW, S_UPDATED, S_DELETED}))

Binding(x) == << x.domain, x.hostname, x.ip >>

Count(ls, b) == Cardinality({ i \in DOMAIN ls : Binding(ls[i]) = b })

SameBindings(ls, ms) ==
    \A b \in { Binding(ls[i]) : i \in DOMAIN ls } \cup { Binding(ms[i]) : i \in DOMAIN ms } :
        Count(ls, b) = Count(ms, b)

\* C8 as stated: with the force flag, the list dns_update is called with
\* holds the bindings of the current set C and nothing else.
C8_ForceOperandIsCurrent ==
    (pc = "dns_update" /\ dnsForceUpdate)
        => SameBindings(DnsUpdateArg(leases, processableLeases), current)

\* C8 amended: with the force flag, the list dns_update is called with
\* holds every binding of the current set C once, whatever its state, and
\* besides them only the Deleted bindings db_compare appended, one for each
\* cache row its second query returned.
C8_ForceOperandIsReconciled ==
    (pc = "dns_update" /\ dnsForceUpdate)
        => LET operand == DnsUpdateArg(leases, processableLeases)
           IN /\ SameBindings(WithState(operand, {S_NEW, S_UPDATED, S_UNCHANGED}),
                              current)
              /\ Len(WithState(operand, {S_DELETED}))
                    = Cardinality(SelectNotIn(cache, current))

\* C8 witness: a forced cycle calls dns_update with an Unchanged and a
\* Deleted binding.
C8_Witness ==
    /\ pc = "dns_update" /\ dnsForceUpdate
    /\ \E i \in DOMAIN leases : leases[i].state = S_UNCHANGED
    /\ \E i \in DOMAIN leases : leases[i].state = S_DELETED

\* C9: reconciling an empty current set against a non-empty cache, the
\* cache database being open, completes with one Deleted binding for each
\* cached key and no other binding.
C9_EmptyCurrent ==
    [][ (pc = "db_compare" /\ pc' # "db_compare" /\ leases = <<>> /\ cache # {}
         /\ exc' # "AttributeError: cursor")
            => /\ pc' = "select"
               /\ Len(leases') = Cardinality(cache)
               /\ \A i \in DOMAIN leases' : leases'[i].state = S_DELETED
               /\ Keys(leases') = CacheKeys ]_vars

\* C10: when the cache holds a1 for a binding of C (distinct keys) whose
\* address is a2 # a1, the binding is Updated and the transaction deletes
\* the records of hostname.domain, adds hostname.domain A a2, deletes the PTR
\* at the reverse name of a1 and adds the PTR of hostname.domain at the
\* reverse name of a2.
C10_UpdatedTransaction ==
    (pc = "nsupdate" /\ DistinctKeys(current))
        => \A i \in DOMAIN current : \A r \in cache :
             (KeyOf(r) = KeyOf(current[i]) /\ r.ip # current[i].ip)
                => LET b == current[i]
                   IN /\ [b EXCEPT !.state = S_UPDATED] \in Range(leases)
                      /\ { UpdateDelete(FqdnOf(b)),
                           UpdateAdd(FqdnOf(b), dnsTtl, "A", b.ip),
                           UpdateDelete(PtrNameOf(r.ip)),
                           UpdateAdd(PtrNameOf(b.ip), dnsTtl, "PTR", FqdnOf(b)) }
                         \subseteq Range(tmpFile)

\* C11 as stated: when the cache is empty and the fetch returns one binding,
\* the binding is New and the transaction holds one A add, one PTR add and
\* no delete.
C11_NewOnlyAdds ==
    (pc = "nsupdate" /\ cache = {} /\ Len(current) = 1)
        => /\ leases = << [current[1] EXCEPT !.state = S_NEW] >>
           /\ \A i \in DOMAIN tmpFile : tmpFile[i].op # "delete"
           /\ Cardinality({ i \in DOMAIN tmpFile : tmpFile[i].op = "add" }) = 2

\* C11 amended: when the cache is empty and the fetch returns one binding b,
\* the binding is New and the transaction is the forward and the reverse
\* group of b, each a delete at the name followed by the add: delete
\* hostname.domain, add its A record, send, delete the reverse name of the
\* address, add its PTR record, send.
C11_NewDeleteThenAdd ==
    (pc = "nsupdate" /\ cache = {} /\ Len(current) = 1)
        => LET b == current[1]
           IN /\ leases = << [b EXCEPT !.state = S_NEW] >>
              /\ tmpFile = << UpdateDelete(FqdnOf(b)),
                              UpdateAdd(FqdnOf(b), dnsTtl, "A", b.ip),
                              Send,
                              UpdateDelete(PtrNameOf(b.ip)),
                              UpdateAdd(PtrNameOf(b.ip), dnsTtl, "PTR", FqdnOf(b)),
                              Send >>

\* C11 witness: the transaction of a single binding has been written, the
\* cache being empty.
C11_Witness ==
    pc = "nsupdate" /\ cache = {} /\ Len(current) = 1 /\ tmpFile # None

\* The section holds two staticmap of one hostname, or a staticmap without
\* hostname.
Invalid(c) ==
    \/ \E i \in DOMAIN c.staticmap : c.staticmap[i].hostname = None
    \/ \E i, j \in DOMAIN c.staticmap :
          i # j /\ c.staticmap[i].hostname = c.staticmap[j].hostname

\* C12: when the configuration fetched holds two bindings of one key or an
\* entry with a missing field, the cycle ends in the fetch: db_compare is
\* not run, nothing is sent to the server and the cache is left as it was.
C12_InvalidConfigAborts ==
    [][ (pc = "get_static_leases" /\ pc' # pc /\ Invalid(config))
            => (pc' \notin {"db_compare", "select", "dns_update", "nsupdate",
                            "db_update"}
                /\ cache' = cache /\ zone' = zone) ]_vars

\* C13: in every cycle in which the cache database cannot be opened, at
\* db_compare or at db_update, the cycle ends and nsupdate has not been run
\* in that cycle.
C13_NoStoreNoDns ==
    [][ (pc' = "traceback" /\ exc' = "AttributeError: cursor" /\ pc # "traceback")
            => (pc = "db_compare" /\ stdout # "DNS records updated.") ]_vars

ParseErrors ==
    { "Static lease IPADDR mismatch", "Static lease HOSTNAME mismatch" }

StoreErrors == { "AttributeError: cursor" }

\* C14: with --loop, a cycle that ends on an error of the configuration
\* reader or of the cache database does not end the process: the script
\* goes to its wait loop.
C14_ErrorStaysInCycle ==
    [][ (loop /\ exc = "" /\ exc' \in ParseErrors \cup StoreErrors)
            => pc' = "wait" ]_vars

\* C15: every Deleted binding db_compare appends for a cache row carries
\* the domain, the hostname and the address of the row.
C15_DeletedCarriesRecord ==
    pc = "select"
        => LET deleted == WithState(leases, {S_DELETED})
           IN /\ { Row(deleted[i].domain, deleted[i].hostname, deleted[i].ip) :
                     i \in DOMAIN deleted } = SelectNotIn(cache, current)
              /\ Len(deleted) = Cardinality(SelectNotIn(cache, current))

\* The cache rows whose key is not in the current set of the cycle.
Stale == { r \in cache : KeyOf(r) \notin Keys(current) }

\* C16: when a key is in the cache and not in the configuration, and
\* neither nsupdate nor the cache database fails, the cycle reconciles,
\* writes a transaction with the delete of hostname.domain and the delete
\* of the PTR at the cached address, and removes the row of the key from
\* the cache.
C16_NoMissedDeletion ==
    [][ /\ (pc = "db_compare" /\ Stale # {}) => pc' = "select"
        /\ (pc = "select" /\ Stale # {}) => pc' = "dns_update"
        /\ (pc = "dns_update" /\ Stale # {})
              => /\ pc' = "nsupdate"
                 /\ \A r \in Stale :
                       { UpdateDelete(FqdnOf(r)), UpdateDelete(PtrNameOf(r.ip)) }
                           \subseteq Range(tmpFile')
        /\ (pc = "db_update" /\ pc' = "end_cycle") => cache' \cap Stale = {} ]_vars

\* C18: the cycle never writes a transaction in which two bindings of
\* different keys add a PTR record at the same reverse name, the one
\* replacing the other: a current set with such bindings is reported and
\* not applied.
C18_NoSilentPtrOverwrite ==
    pc = "nsupdate"
        => ~ \E i, j \in DOMAIN tmpFile :
               /\ tmpFile[i].op = "add" /\ tmpFile[j].op = "add"
               /\ tmpFile[i].type = "PTR" /\ tmpFile[j].type = "PTR"
               /\ tmpFile[i].name = tmpFile[j].name
               /\ tmpFile[i].rdata # tmpFile[j].rdata

\* The zone after the server has applied every message of the file.
AppliedInFull(f, z) == ApplyUpdates(z, SelectSeq(f, LAMBDA u : u.op # "send"))

\* C17: the file nsupdate is run on is a function of the current set, the
\* cache and the force flag: a cycle that fetches the same current set with
\* the same cache computes the same classified list and writes the same
\* file.  When nsupdate exits with an error after the server applied some
\* of the messages, the cache is as it was, and the file applied in full to
\* the zone the failed run left gives the zone it would have given had the
\* first run applied it in full; an nsupdate that succeeds has applied the
\* file in full, and db_update then writes the cache from the list.
C17_SafeRetry ==
    /\ [](pc = "nsupdate"
            => \A records \in Perms(SelectNotIn(cache, current)) :
                 /\ db_compare(current, cache, records) = leases
                 /\ Len(Processable(leases, dnsForceUpdate)) > 0
                 /\ TransactionOf(DnsUpdateArg(leases, processableLeases)) = tmpFile)
    /\ [][ /\ (pc = "nsupdate" /\ pc' = "traceback")
                 => /\ cache' = cache
                    /\ AppliedInFull(tmpFile, zone') = AppliedInFull(tmpFile, zone)
           /\ (pc = "nsupdate" /\ pc' = "db_update")
                 => zone' = AppliedInFull(tmpFile, zone)
           /\ (pc = "db_update" /\ pc' = "end_cycle")
                 => cache' = db_update(DbUpdateArg(leases, processableLeases), cache)
         ]_vars

\* C17 witness: nsupdate has failed after the server applied a message of
\* the file and rejected another, the zone being neither the one before
\* the run nor the one of the file applied in full.
C17_Witness ==
    /\ pc = "traceback" /\ exc = "CalledProcessError"
    /\ zone # AppliedInFull(tmpFile, zone)
    /\ \E i \in DOMAIN tmpFile :
          /\ tmpFile[i].op = "add"
          /\ RR(tmpFile[i].name, tmpFile[i].ttl, tmpFile[i].type, tmpFile[i].rdata)
                \in zone

\* The configuration was saved after line 238 read it: the file no longer
\* holds the list the cycle fetched.
ChangedSinceFetch == current # get_static_leases(config).slList

\* C19: with --loop and without --force, a change of the configuration that
\* happens after the fetch of a cycle and before line 261 samples st_mtime
\* makes the script leave its wait loop and fetch again.
C19_NoMissedChange ==
    (pc = "end_cycle" /\ loop /\ ~dnsForceUpdate /\ ChangedSinceFetch)
        ~> (pc = "get_static_leases")

\* The state reconciliation gives a binding b for the cache K.
StateOf(b, K) ==
    IF \A r \in K : KeyOf(r) # KeyOf(b) THEN S_NEW
    ELSE IF \E r \in K : KeyOf(r) = KeyOf(b) /\ r.ip # b.ip THEN S_UPDATED
    ELSE S_UNCHANGED

\* C20: db_compare gives every binding of the current set the state New
\* when its key is not in the cache, Updated when the cache holds another
\* address for the key and Unchanged when it holds the same address, in the
\* order of the list before the sort by state; dns_update and db_update
\* leave the states as db_compare set them.
C20_StateOfBinding ==
    [][ /\ (pc = "db_compare" /\ pc' = "select")
              => \E classified \in [DOMAIN current -> LeaseState] :
                   /\ \A i \in DOMAIN current :
                         classified[i] = StateOf(current[i], cache)
                   /\ WithState(leases', {S_UNCHANGED, S_NEW, S_UPDATED})
                         = SortByState([ i \in DOMAIN current |->
                              [current[i] EXCEPT !.state = classified[i]] ])
        /\ (pc \in {"select", "dns_update", "nsupdate", "db_update"}
             /\ pc' \in {"dns_update", "nsupdate", "db_update", "end_cycle"})
              => leases' = leases
      ]_vars

\* C20 witness: a cycle has applied and persisted a list with an Updated
\* and an Unchanged binding.
C20_Witness ==
    /\ Persisted
    /\ \E i \in DOMAIN leases : leases[i].state = S_UPDATED
    /\ \E i \in DOMAIN leases : leases[i].state = S_UNCHANGED

====
